---- MODULE Spec2Model ----
(***************************************************************************)
(* A model of MiniatureRedis_py/ser.py: the tag-prefixed wire codec        *)
(* (ProtocolHandler), the command table and the store (Server), and the    *)
(* per-connection read / dispatch / write loop (Server.connection_handler).*)
(*                                                                         *)
(* Representation of Python values:                                        *)
(*   <<"bulk", bs>>   a bytes object, bs a sequence of bytes               *)
(*   <<"str", cs>>    a str object, cs a sequence of characters            *)
(*   <<"int", n>>     an int                                               *)
(*   <<"null">>       None                                                 *)
(*   <<"err", m>>     Error(message = m), m a bulk or a str                *)
(*   <<"arr", vs>>    a list                                               *)
(*   <<"tuple", vs>>  a tuple                                              *)
(*   <<"map", ps>>    a dict: pairs <<k, v>> in insertion order, keys      *)
(*                    pairwise different                                   *)
(* A byte is a string naming it: "a", "0", "$", and "CR", "LF", "NUL",     *)
(* "SP" for the bytes 13, 10, 0 and 32.  All bytes of the model are ASCII, *)
(* so bytes.decode('ascii') and str.encode('utf-8') change the type only.  *)
(***************************************************************************)
EXTENDS Integers, Sequences, FiniteSets, TLC

(***************************************************************************)
(* Bytes                                                                   *)
(***************************************************************************)
DigitChars == <<"0", "1", "2", "3", "4", "5", "6", "7", "8", "9">>

IsDigit(b) == \E i \in 1..10 : DigitChars[i] = b

DigitVal(b) == (CHOOSE i \in 1..10 : DigitChars[i] = b) - 1

\* The bytes Python treats as ASCII whitespace (bytes.split, int).
IsSpace(b) == b \in {"SP", "TAB", "LF", "CR", "VT", "FF"}

LowerChars == <<"a", "b", "c", "d", "e", "f", "g", "h", "i", "j", "k", "l", "m",
                "n", "o", "p", "q", "r", "s", "t", "u", "v", "w", "x", "y", "z">>

UpperChars == <<"A", "B", "C", "D", "E", "F", "G", "H", "I", "J", "K", "L", "M",
                "N", "O", "P", "Q", "R", "S", "T", "U", "V", "W", "X", "Y", "Z">>

\* bytes.upper() on one byte.
UpperByte(b) ==
    IF \E i \in 1..26 : LowerChars[i] = b
    THEN UpperChars[CHOOSE i \in 1..26 : LowerChars[i] = b]
    ELSE b

\* bytes.upper()
Upper(bs) == [i \in 1..Len(bs) |-> UpperByte(bs[i])]

RECURSIVE NatDigits(_)
NatDigits(n) ==
    IF n < 10 THEN <<DigitChars[n + 1]>>
    ELSE NatDigits(n \div 10) \o <<DigitChars[(n % 10) + 1]>>

\* b'%d' % n
FormatInt(n) == IF n < 0 THEN <<"-">> \o NatDigits(-n) ELSE NatDigits(n)

RECURSIVE RStripCRLF(_)
\* bytes.rstrip(b'\r\n'): drops every trailing CR and LF byte.
RStripCRLF(bs) ==
    IF bs # <<>> /\ bs[Len(bs)] \in {"CR", "LF"}
    THEN RStripCRLF(SubSeq(bs, 1, Len(bs) - 1))
    ELSE bs

RECURSIVE LStripSpace(_)
LStripSpace(bs) ==
    IF bs # <<>> /\ IsSpace(bs[1]) THEN LStripSpace(Tail(bs)) ELSE bs

RECURSIVE RStripSpace(_)
RStripSpace(bs) ==
    IF bs # <<>> /\ IsSpace(bs[Len(bs)])
    THEN RStripSpace(SubSeq(bs, 1, Len(bs) - 1))
    ELSE bs

RECURSIVE DigitsValue(_, _)
\* The number written by the digits of ds, its underscores skipped.
DigitsValue(ds, acc) ==
    IF ds = <<>> THEN acc
    ELSE IF ds[1] = "_" THEN DigitsValue(Tail(ds), acc)
    ELSE DigitsValue(Tail(ds), 10 * acc + DigitVal(ds[1]))

\* int(bs): surrounding whitespace, an optional sign, then digits that single
\* underscores may separate.  ok = FALSE stands for ValueError.
ParseInt(bs) ==
    LET s    == RStripSpace(LStripSpace(bs))
        sgn  == s # <<>> /\ s[1] \in {"+", "-"}
        body == IF sgn THEN Tail(s) ELSE s
        good == /\ body # <<>>
                /\ \A i \in 1..Len(body) : IsDigit(body[i]) \/ body[i] = "_"
                /\ IsDigit(body[1]) /\ IsDigit(body[Len(body)])
                /\ \A i \in 1..(Len(body) - 1) : ~(body[i] = "_" /\ body[i + 1] = "_")
    IN  IF ~good THEN [ok |-> FALSE, n |-> 0]
        ELSE [ok |-> TRUE,
              n  |-> IF sgn /\ s[1] = "-" THEN 0 - DigitsValue(body, 0)
                     ELSE DigitsValue(body, 0)]

(***************************************************************************)
(* The buffered socket file.  A stream is the bytes received so far (buf), *)
(* the index of the next unread byte (pos) and whether the peer has closed *)
(* its side (eof).  A read that needs bytes that have not arrived blocks   *)
(* when the peer may still send them and comes back short at end of input. *)
(***************************************************************************)
Blocked(pos) == [st |-> "Block", bytes |-> <<>>, pos |-> pos]

\* socket_file.read(n)
FileRead(buf, pos, eof, n) ==
    LET avail == Len(buf) - pos + 1
    IN  IF n < -1 THEN [st |-> "ValueError", bytes |-> <<>>, pos |-> pos]
        ELSE IF n = -1
             THEN IF eof THEN [st |-> "ok", bytes |-> SubSeq(buf, pos, Len(buf)),
                               pos |-> Len(buf) + 1]
                  ELSE Blocked(pos)
        ELSE IF avail >= n
             THEN [st |-> "ok", bytes |-> SubSeq(buf, pos, pos + n - 1), pos |-> pos + n]
        ELSE IF eof
             THEN [st |-> "ok", bytes |-> SubSeq(buf, pos, Len(buf)), pos |-> Len(buf) + 1]
        ELSE Blocked(pos)

\* socket_file.readline(): up to and including the first LF, or what is left
\* at end of input.
FileReadline(buf, pos, eof) ==
    LET lfs == {i \in pos..Len(buf) : buf[i] = "LF"}
    IN  IF lfs # {}
        THEN LET i == CHOOSE j \in lfs : \A k \in lfs : j <= k
             IN  [st |-> "ok", bytes |-> SubSeq(buf, pos, i), pos |-> i + 1]
        ELSE IF eof
             THEN [st |-> "ok", bytes |-> SubSeq(buf, pos, Len(buf)), pos |-> Len(buf) + 1]
        ELSE Blocked(pos)

(***************************************************************************)
(* Values                                                                  *)
(***************************************************************************)
None == <<"null">>

client_side == 10
server_side == 20

PyBytes(bs) == <<"bulk", bs>>
PyStr(cs) == <<"str", cs>>
PyInt(n) == <<"int", n>>
Error(m) == <<"err", m>>
PyList(vs) == <<"arr", vs>>
PyTuple(vs) == <<"tuple", vs>>
PyDict(ps) == <<"map", ps>>

Kind(v) == v[1]

\* bytes.decode('ascii') when the decoder runs on the client side.
TextOf(bs, system_side) == IF system_side = server_side THEN PyBytes(bs) ELSE PyStr(bs)

RECURSIVE Hashable(_)
\* Whether Python can hash v: lists and dicts cannot be, a tuple (Error is a
\* namedtuple) can when its items can.
Hashable(v) ==
    CASE Kind(v) \in {"arr", "map"} -> FALSE
      [] Kind(v) = "err" -> Hashable(v[2])
      [] Kind(v) = "tuple" -> \A i \in 1..Len(v[2]) : Hashable(v[2][i])
      [] OTHER -> TRUE

\* A dict that kept every pair given to it.
DictPut_append(ps, k, v) == Append(ps, <<k, v>>)

\* d[k] = v on a dict kept as pairs in insertion order.
DictPut(ps, k, v) ==
    IF \E i \in 1..Len(ps) : ps[i][1] = k
    THEN [i \in 1..Len(ps) |-> IF ps[i][1] = k THEN <<k, v>> ELSE ps[i]]
    ELSE Append(ps, <<k, v>>)

RECURSIVE DictZip(_, _)
\* dict(zip(elements[::2], elements[1::2])) given ps as the pairs built so far.
DictZip(elements, ps) ==
    IF Len(elements) < 2 THEN ps
    ELSE DictZip(SubSeq(elements, 3, Len(elements)),
                 DictPut(ps, elements[1], elements[2]))

(***************************************************************************)
(* ProtocolHandler: decoding                                               *)
(***************************************************************************)
Ok(v, pos) == [st |-> "ok", val |-> v, pos |-> pos]
Raise(exc, pos) == [st |-> exc, val |-> None, pos |-> pos]

Handlers == {"+", "-", ":", "$", "*", "%"}

handle_simple_string(buf, pos, eof, system_side) ==
    LET ln == FileReadline(buf, pos, eof)
    IN  IF ln.st # "ok" THEN Raise(ln.st, pos)
        ELSE Ok(TextOf(RStripCRLF(ln.bytes), system_side), ln.pos)

handle_error(buf, pos, eof, system_side) ==
    LET ln == FileReadline(buf, pos, eof)
    IN  IF ln.st # "ok" THEN Raise(ln.st, pos)
        ELSE Ok(Error(TextOf(RStripCRLF(ln.bytes), system_side)), ln.pos)

handle_integer(buf, pos, eof, system_side) ==
    LET ln == FileReadline(buf, pos, eof)
        n  == ParseInt(RStripCRLF(ln.bytes))
    IN  IF ln.st # "ok" THEN Raise(ln.st, pos)
        ELSE IF ~n.ok THEN Raise("ValueError", ln.pos)
        ELSE Ok(PyInt(n.n), ln.pos)

\* handle_string that takes the payload to be the next line.
handle_string_line(buf, pos, eof, system_side) ==
    LET ln     == FileReadline(buf, pos, eof)
        length == ParseInt(RStripCRLF(ln.bytes))
        rd     == FileReadline(buf, ln.pos, eof)
    IN  IF ln.st # "ok" THEN Raise(ln.st, pos)
        ELSE IF ~length.ok THEN Raise("ValueError", ln.pos)
        ELSE IF length.n = -1 THEN Ok(None, ln.pos)
        ELSE IF rd.st # "ok" THEN Raise(rd.st, ln.pos)
        ELSE Ok(TextOf(RStripCRLF(rd.bytes), system_side), rd.pos)

handle_string(buf, pos, eof, system_side) ==
    LET ln     == FileReadline(buf, pos, eof)
        length == ParseInt(RStripCRLF(ln.bytes))
        rd     == FileRead(buf, ln.pos, eof, length.n + 2)
        data   == SubSeq(rd.bytes, 1, Len(rd.bytes) - 2)
    IN  IF ln.st # "ok" THEN Raise(ln.st, pos)
        ELSE IF ~length.ok THEN Raise("ValueError", ln.pos)
        ELSE IF length.n = -1 THEN Ok(None, ln.pos)
        ELSE IF rd.st # "ok" THEN Raise(rd.st, ln.pos)
        ELSE Ok(TextOf(data, system_side), rd.pos)

RECURSIVE handle_request(_, _, _, _)
RECURSIVE ReadElements(_, _, _, _, _, _)

\* [self.handle_request(socket_file, system_side) for _ in range(n)]: acc is
\* the list built so far; the first element that raises ends the loop.
ReadElements(buf, pos, eof, system_side, n, acc) ==
    IF n <= 0 THEN Ok(acc, pos)
    ELSE LET r == handle_request(buf, pos, eof, system_side)
         IN  IF r.st # "ok" THEN Raise(r.st, r.pos)
             ELSE ReadElements(buf, r.pos, eof, system_side, n - 1, Append(acc, r.val))

handle_array(buf, pos, eof, system_side) ==
    LET ln           == FileReadline(buf, pos, eof)
        num_elements == ParseInt(RStripCRLF(ln.bytes))
        els          == ReadElements(buf, ln.pos, eof, system_side, num_elements.n, <<>>)
    IN  IF ln.st # "ok" THEN Raise(ln.st, pos)
        ELSE IF ~num_elements.ok THEN Raise("ValueError", ln.pos)
        ELSE IF els.st # "ok" THEN els
        ELSE Ok(PyList(els.val), els.pos)

handle_dict(buf, pos, eof, system_side) ==
    LET ln        == FileReadline(buf, pos, eof)
        num_items == ParseInt(RStripCRLF(ln.bytes))
        els       == ReadElements(buf, ln.pos, eof, system_side, num_items.n * 2, <<>>)
    IN  IF ln.st # "ok" THEN Raise(ln.st, pos)
        ELSE IF ~num_items.ok THEN Raise("ValueError", ln.pos)
        ELSE IF els.st # "ok" THEN els
        ELSE IF \E i \in 1..Len(els.val) : i % 2 = 1 /\ ~Hashable(els.val[i])
             THEN Raise("TypeError", els.pos)
        ELSE Ok(PyDict(DictZip(els.val, <<>>)), els.pos)

\* One value off the stream.  st is "ok", the exception raised ("Disconnect",
\* "CommandError" for a tag that is no key of self.handlers, "ValueError",
\* "TypeError"), or "Block" when the bytes to go on have not arrived.
handle_request(buf, pos, eof, system_side) ==
    LET first_byte == FileRead(buf, pos, eof, 1)
        tag        == first_byte.bytes[1]
    IN  IF first_byte.st # "ok" THEN Raise(first_byte.st, pos)
        ELSE IF first_byte.bytes = <<>> THEN Raise("Disconnect", pos)
        ELSE IF tag \notin Handlers THEN Raise("CommandError", first_byte.pos)
        ELSE CASE tag = "+" -> handle_simple_string(buf, first_byte.pos, eof, system_side)
               [] tag = "-" -> handle_error(buf, first_byte.pos, eof, system_side)
               [] tag = ":" -> handle_integer(buf, first_byte.pos, eof, system_side)
               [] tag = "$" -> handle_string(buf, first_byte.pos, eof, system_side)
               [] tag = "*" -> handle_array(buf, first_byte.pos, eof, system_side)
               [] tag = "%" -> handle_dict(buf, first_byte.pos, eof, system_side)

(***************************************************************************)
(* ProtocolHandler: encoding                                               *)
(***************************************************************************)
CRLF == <<"CR", "LF">>

Wrote(bs) == [st |-> "ok", bytes |-> bs]
WriteRaise(exc) == [st |-> exc, bytes |-> <<>>]

RECURSIVE _write(_)
RECURSIVE WriteItems(_, _)

\* for item in data: self._write(buf, item)
WriteItems(items, acc) ==
    IF items = <<>> THEN Wrote(acc)
    ELSE LET w == _write(items[1])
         IN  IF w.st # "ok" THEN w ELSE WriteItems(Tail(items), acc \o w.bytes)

\* for key in data: self._write(buf, key); self._write(buf, data[key])
WritePairs(ps, acc) ==
    WriteItems([i \in 1..(2 * Len(ps)) |-> ps[(i + 1) \div 2][2 - (i % 2)]], acc)

\* The bytes _write puts in the buffer, or the exception it raises.  The
\* Error branch reads the name `error`, which nothing binds: NameError.
_write(data) ==
    CASE Kind(data) \in {"str", "bulk"} ->
            Wrote(<<"$">> \o FormatInt(Len(data[2])) \o CRLF \o data[2] \o CRLF)
      [] Kind(data) = "int" -> Wrote(<<":">> \o FormatInt(data[2]) \o CRLF)
      [] Kind(data) = "err" -> WriteRaise("NameError")
      [] Kind(data) \in {"arr", "tuple"} ->
            WriteItems(data[2], <<"*">> \o FormatInt(Len(data[2])) \o CRLF)
      [] Kind(data) = "map" ->
            WritePairs(data[2], <<"%">> \o FormatInt(Len(data[2])) \o CRLF)
      [] Kind(data) = "null" -> Wrote(<<"$", "-", "1">> \o CRLF)
      [] OTHER -> WriteRaise("CommandError")

(***************************************************************************)
(* Server: the store (self._kv) and its operations.  The store is a        *)
(* function from the keys present to their values; the order in which a    *)
(* dict keeps its keys is observed by no command.  An operation yields the *)
(* exception it raises or "ok", the value it returns and the store it      *)
(* leaves.                                                                 *)
(***************************************************************************)
EmptyKv == [k \in {} |-> None]

\* self._kv[key] = value
KvPut(store, key, value) ==
    [k \in DOMAIN store \cup {key} |-> IF k = key THEN value ELSE store[k]]

\* del self._kv[key]
KvDel(store, key) == [k \in DOMAIN store \ {key} |-> store[k]]

\* self._kv.get(key)
KvGet(store, key) == IF key \in DOMAIN store THEN store[key] ELSE None

Done(ret, store) == [st |-> "ok", ret |-> ret, kv |-> store, msg |-> <<>>]
Fails(exc, msg, store) == [st |-> exc, ret |-> None, kv |-> store, msg |-> msg]

get(store, key) ==
    IF ~Hashable(key) THEN Fails("TypeError", <<>>, store)
    ELSE Done(KvGet(store, key), store)

\* set that keeps the value of a key the store already has.
set_keep(store, key, value) ==
    IF ~Hashable(key) THEN Fails("TypeError", <<>>, store)
    ELSE IF key \in DOMAIN store THEN Done(PyInt(1), store)
    ELSE Done(PyInt(1), KvPut(store, key, value))

set(store, key, value) ==
    IF ~Hashable(key) THEN Fails("TypeError", <<>>, store)
    ELSE Done(PyInt(1), KvPut(store, key, value))

\* delete that answers 1 without looking for the key.
delete_unchecked(store, key) ==
    IF ~Hashable(key) THEN Fails("TypeError", <<>>, store)
    ELSE Done(PyInt(1), KvDel(store, key))

delete(store, key) ==
    IF ~Hashable(key) THEN Fails("TypeError", <<>>, store)
    ELSE IF key \in DOMAIN store THEN Done(PyInt(1), KvDel(store, key))
    ELSE Done(PyInt(0), store)

\* flush that returns the number of entries.
flush_count(store) == Done(PyInt(Cardinality(DOMAIN store)), EmptyKv)

flush(store) ==
    LET kvlen == Cardinality(DOMAIN store) - 1
    IN  Done(PyInt(kvlen), EmptyKv)

\* mget that leaves out the keys the store does not have.
mget_present(store, keys) ==
    IF \E i \in 1..Len(keys) : ~Hashable(keys[i]) THEN Fails("TypeError", <<>>, store)
    ELSE Done(PyList(SelectSeq([i \in 1..Len(keys) |-> KvGet(store, keys[i])],
                               LAMBDA v : v # None)), store)

mget(store, keys) ==
    IF \E i \in 1..Len(keys) : ~Hashable(keys[i]) THEN Fails("TypeError", <<>>, store)
    ELSE Done(PyList([i \in 1..Len(keys) |-> KvGet(store, keys[i])]), store)

\* zip_longest(items[::2], items[1::2]): an item left over is paired with
\* None.
ZipPadded(items) ==
    [i \in 1..((Len(items) + 1) \div 2) |->
        <<items[2 * i - 1], IF 2 * i <= Len(items) THEN items[2 * i] ELSE None>>]

\* zip(items, items[1:]): every item paired with the one after it.
ZipAdjacent(items) == [i \in 1..(Len(items) - 1) |-> <<items[i], items[i + 1]>>]

\* list(zip(items[::2], items[1::2]))
ZipPairs(items) == [i \in 1..(Len(items) \div 2) |-> <<items[2 * i - 1], items[2 * i]>>]

\* A loop that is left after the first pair it writes, the other pairs
\* unwritten.
MsetLoop_first(store, data, i) ==
    IF i > Len(data) THEN Done(PyInt(Len(data)), store)
    ELSE IF ~Hashable(data[i][1]) THEN Fails("TypeError", <<>>, store)
    ELSE Done(PyInt(Len(data)), KvPut(store, data[i][1], data[i][2]))

RECURSIVE MsetLoop(_, _, _)
\* for key, value in data: self._kv[key] = value, from pair i on; a key that
\* cannot be hashed raises with the pairs before it written.
MsetLoop(store, data, i) ==
    IF i > Len(data) THEN Done(PyInt(Len(data)), store)
    ELSE IF ~Hashable(data[i][1]) THEN Fails("TypeError", <<>>, store)
    ELSE MsetLoop(KvPut(store, data[i][1], data[i][2]), data, i + 1)

mset(store, items) == MsetLoop(store, ZipPairs(items), 1)

(***************************************************************************)
(* Server: the command table and dispatch                                  *)
(***************************************************************************)
B(name) == PyBytes(name)

GET == <<"G", "E", "T">>
SET == <<"S", "E", "T">>
DELETE == <<"D", "E", "L", "E", "T", "E">>
FLUSH == <<"F", "L", "U", "S", "H">>
MGET == <<"M", "G", "E", "T">>
MSET == <<"M", "S", "E", "T">>

get_commands == {B(GET), B(SET), B(DELETE), B(FLUSH), B(MGET), B(MSET)}

RECURSIVE Split(_, _, _)
\* bytes.split(): the maximal runs of bytes that are not whitespace; word is
\* the run being read, acc the runs read.
Split(bs, word, acc) ==
    IF bs = <<>> THEN (IF word = <<>> THEN acc ELSE Append(acc, PyBytes(word)))
    ELSE IF IsSpace(bs[1])
         THEN Split(Tail(bs), <<>>, IF word = <<>> THEN acc ELSE Append(acc, PyBytes(word)))
    ELSE Split(Tail(bs), Append(word, bs[1]), acc)

\* self._commands[command](*data[1:]): a call with the wrong number of
\* arguments raises TypeError before the method body runs.
Call(store, command, args) ==
    CASE command = B(GET) ->
            IF Len(args) # 1 THEN Fails("TypeError", <<>>, store) ELSE get(store, args[1])
      [] command = B(SET) ->
            IF Len(args) # 2 THEN Fails("TypeError", <<>>, store)
            ELSE set(store, args[1], args[2])
      [] command = B(DELETE) ->
            IF Len(args) # 1 THEN Fails("TypeError", <<>>, store) ELSE delete(store, args[1])
      [] command = B(FLUSH) ->
            IF Len(args) # 0 THEN Fails("TypeError", <<>>, store) ELSE flush(store)
      [] command = B(MGET) -> mget(store, args)
      [] command = B(MSET) -> mset(store, args)

\* A str of the model: the fixed text as one piece, then the characters of bs.
Message(text, bs) == PyStr(<<text>> \o bs)

\* Lines 176-180: a list is taken as it is, anything else is split; only bytes
\* (a bulk or a one-line text, on the server side) have a split method.
CanSplit(data) == Kind(data) = "bulk"

\* A request that is no list taken as one token: [data], not data.split().
Tokens_whole(data) ==
    IF Kind(data) = "arr" THEN data[2]
    ELSE IF CanSplit(data) THEN <<data>>
    ELSE <<>>

Tokens(data) ==
    IF Kind(data) = "arr" THEN data[2]
    ELSE IF CanSplit(data) THEN Split(data[2], <<>>, <<>>)
    ELSE <<>>

get_response(store, data) ==
    LET tokens  == Tokens(data)
        command == PyBytes(Upper(tokens[1][2]))
    IN  IF Kind(data) # "arr" /\ ~CanSplit(data)
        THEN Fails("CommandError", Message("Request must be list or simple string.", <<>>),
                   store)
        ELSE IF tokens = <<>>
        THEN Fails("CommandError", Message("Missing command", <<>>), store)
        ELSE IF Kind(tokens[1]) # "bulk" THEN Fails("AttributeError", <<>>, store)
        ELSE IF command \notin get_commands
        THEN Fails("CommandError", Message("Unrecognized command: ", command[2]), store)
        ELSE Call(store, command, Tail(tokens))

(***************************************************************************)
(* Client.execute: the bytes a client of this repository sends for a call, *)
(* a tuple of str written by write_response.                               *)
(***************************************************************************)
execute(args) == _write(PyTuple([i \in 1..Len(args) |-> PyStr(args[i])])).bytes

\* The bytes of any value, for a peer that writes its own frames.
Frame(v) == _write(v).bytes

Conns == {"c1", "c2"}

\* The number of connections served at once, Pool(max_clients): the server is
\* built as Server(max_clients=1), so that a second connection finds the pool
\* full (the default is 64).
max_clients == 1

Ka == <<"a">>
Kb == <<"b">>
Vx == <<"x">>
Vy == <<"y">>

\* What a client sends in one piece: calls of the Client class, frames other
\* peers can write (lower case, the one-line form, values that are no bulk),
\* frames cut short, bytes that start no frame.
ClientCalls ==
    { execute(<<GET, Ka>>), execute(<<GET, Kb>>),
      execute(<<SET, Ka, Vx>>), execute(<<SET, Ka, Vy>>), execute(<<SET, Kb, Vx>>),
      execute(<<DELETE, Ka>>), execute(<<DELETE, Kb>>),
      execute(<<FLUSH>>),
      execute(<<MGET, Ka, Kb>>), execute(<<MGET, Kb, Ka, Kb>>), execute(<<MGET>>),
      execute(<<MSET, Ka, Vx, Kb, Vy>>), execute(<<MSET, Ka, Vx, Ka, Vy>>),
      execute(<<MSET, Kb, Vy, Ka>>), execute(<<MSET>>),
      execute(<<<<"F", "O", "O">>>>),
      execute(<<GET>>), execute(<<SET, Ka>>), execute(<<FLUSH, Ka>>) }

OtherFrames ==
    { execute(<<<<"g", "e", "t">>, Ka>>),
      <<"+">> \o <<"G", "e", "t", "SP", "a">> \o CRLF,
      Frame(PyBytes(<<"S", "E", "T", "SP", "b", "TAB", "y">>)),
      Frame(PyList(<<B(SET), PyInt(1), PyInt(2)>>)),
      Frame(PyList(<<B(GET), PyInt(1)>>)),
      Frame(PyList(<<B(SET), B(Kb), None>>)),
      Frame(PyList(<<B(MSET), B(Ka), B(Vy), PyList(<<B(Kb)>>), B(Vx)>>)),
      Frame(PyList(<<>>)),
      Frame(PyInt(5)),
      Frame(None),
      Frame(PyList(<<PyInt(1)>>)),
      Frame(PyDict(<<<<B(GET), B(Ka)>>>>)),
      execute(<<GET, Ka>>) \o execute(<<<<"F", "O", "O">>>>) }

\* The frames a peer may send in two pieces, and where it may cut them: inside
\* the payload of a bulk, between the elements of an array, inside a line.
Halved ==
    { <<Frame(B(<<"G", "E", "T", "SP", "a">>)), 6>>,
      <<execute(<<GET, Ka>>), 13>>,
      <<Frame(PyInt(12)), 2>>,
      <<Frame(PyInt(12)), 4>> }

Fragments == {SubSeq(h[1], 1, h[2]) : h \in Halved}

\* What is left to send of a frame of which begun has been sent.
Rests(begun) ==
    {SubSeq(h[1], h[2] + 1, Len(h[1])) : h \in {x \in Halved : SubSeq(x[1], 1, x[2]) = begun}}

BadFrames == { <<"!", "CR", "LF">>, <<"$", "x", "CR", "LF">>, <<":", "CR", "LF">> }

Chunks == ClientCalls \cup OtherFrames \cup Fragments \cup BadFrames

\* The peers of SpecPool, served side by side, and what they send: calls that
\* write a and b together, calls that read them, and a call that fails.
Peers == {"p1", "p2", "p3"}

PeerChunks ==
    { execute(<<MSET, Ka, Vx, Kb, Vy>>), execute(<<MSET, Ka, Vy, Kb, Vx>>),
      execute(<<MGET, Ka, Kb>>), execute(<<FLUSH>>),
      execute(<<<<"F", "O", "O">>>>) }

ChunksOf(c) == IF c \in Conns THEN Chunks ELSE PeerChunks

(***************************************************************************)
(* The writes of a request, as the commands are described: SET k v writes  *)
(* v to k, MSET writes its pairs from left to right (as far as it gets: a  *)
(* key that cannot be hashed ends the call), DELETE k and FLUSH undo       *)
(* writes.  Record(w, data) is the history w after the request data.       *)
(***************************************************************************)
CommandOf(data) ==
    LET tokens == Tokens(data)
    IN  IF tokens = <<>> \/ Kind(tokens[1]) # "bulk" THEN <<>> ELSE Upper(tokens[1][2])

ArgsOf(data) == Tail(Tokens(data))

IsCall(data, name, n) == CommandOf(data) = name /\ Len(ArgsOf(data)) = n

\* The number of pairs of an MSET that are written: those before the first
\* key that cannot be hashed.
PairsWritten(args) ==
    LET n   == Len(args) \div 2
        bad == {i \in 1..n : ~Hashable(args[2 * i - 1])}
    IN  IF bad = {} THEN n ELSE (CHOOSE i \in bad : \A j \in bad : i <= j) - 1

Record(w, data) ==
    LET args == ArgsOf(data)
        m    == PairsWritten(args)
        keys == {args[2 * i - 1] : i \in 1..m}
        latest(k) == CHOOSE i \in 1..m :
                        /\ args[2 * i - 1] = k
                        /\ \A j \in 1..m : args[2 * j - 1] = k => j <= i
    IN  CASE IsCall(data, SET, 2) /\ Hashable(args[1]) ->
                [k \in DOMAIN w \cup {args[1]} |-> IF k = args[1] THEN args[2] ELSE w[k]]
          [] CommandOf(data) = MSET ->
                [k \in DOMAIN w \cup keys |-> IF k \in keys THEN args[2 * latest(k)] ELSE w[k]]
          [] IsCall(data, DELETE, 1) /\ Hashable(args[1]) ->
                [k \in DOMAIN w \ {args[1]} |-> w[k]]
          [] IsCall(data, FLUSH, 0) -> [k \in {} |-> None]
          [] OTHER -> w

NoReq == [st |-> "none", val |-> None]
NoDec == [st |-> "none", val |-> None, pos |-> 0]
NoCodec == [phase |-> "idle", v |-> None, wire |-> <<>>, eof |-> FALSE, cut |-> FALSE,
            tail |-> <<>>, enc |-> "none", side |-> server_side, dec |-> NoDec]
NoEvent == [c |-> "none", req |-> NoReq, st |-> "none", resp |-> None, sent |-> <<>>]

VARIABLES
    kv,      \* self._kv
    conn,    \* conn[c]: "Free", "Pending", "Serving", "Closed" or "Errored"
    inbuf,   \* inbuf[c]: the bytes c's peer has sent that the handler has not consumed
    eof,     \* eof[c]: c's peer has closed its side
    pc,      \* pc[c]: "read" at line 156, "write" at line 168
    cur,     \* cur[c]: the request decoded at line 156 while its response is unwritten
    resp,    \* resp[c]: the response line 168 is about to write
    last,    \* the request a handler has finished with since a peer last sent
             \* bytes: the connection, the decoded request, how it ended, its
             \* response and the bytes written
    codec,   \* a value under the codec alone: see SpecCodec
    written, \* history: for each key, the value of the latest write to it that no
             \* later DELETE of the key or FLUSH has undone
    free     \* the free slots of self._pool

serverVars == <<kv, conn, inbuf, eof, pc, cur, resp, last, written, free>>

vars == <<kv, conn, inbuf, eof, pc, cur, resp, last, codec, written, free>>

Serving == {c \in DOMAIN conn : conn[c] = "Serving"}

Init ==
    /\ kv = EmptyKv
    /\ conn = [c \in Conns |-> "Free"]
    /\ inbuf = [c \in Conns |-> <<>>]
    /\ eof = [c \in Conns |-> FALSE]
    /\ pc = [c \in Conns |-> "read"]
    /\ cur = [c \in Conns |-> NoReq]
    /\ resp = [c \in Conns |-> None]
    /\ last = NoEvent
    /\ codec = NoCodec
    /\ written = [k \in {} |-> None]
    /\ free = max_clients

\* A peer connects; the connection waits in the listen backlog.
Connect(c) ==
    /\ conn[c] = "Free"
    /\ conn' = [conn EXCEPT ![c] = "Pending"]
    /\ UNCHANGED <<kv, inbuf, eof, pc, cur, resp, last, codec, written, free>>

\* A server that spawns a handler for every connection, slot or no slot.
Accept_unbounded(c) ==
    /\ conn[c] = "Pending"
    /\ free' = free - 1
    /\ conn' = [conn EXCEPT ![c] = "Serving"]
    /\ UNCHANGED <<kv, inbuf, eof, pc, cur, resp, last, codec, written>>

\* StreamServer accepts a connection when the pool has a free slot and spawns
\* connection_handler for it.
Accept(c) ==
    /\ conn[c] = "Pending"
    /\ free > 0
    /\ free' = free - 1
    /\ conn' = [conn EXCEPT ![c] = "Serving"]
    /\ UNCHANGED <<kv, inbuf, eof, pc, cur, resp, last, codec, written>>

\* The handler's wait for input: the decoder cannot go on with what has arrived.
Waiting(c) ==
    /\ pc[c] = "read"
    /\ handle_request(inbuf[c], 1, eof[c], server_side).st = "Block"

\* The peer sends a chunk while the handler waits for input: any chunk when
\* the handler has consumed all it was sent, the rest of the frame otherwise.
ClientSend(c) ==
    /\ conn[c] = "Serving"
    /\ ~eof[c]
    /\ Waiting(c)
    /\ \E chunk \in (IF inbuf[c] = <<>> THEN ChunksOf(c) ELSE Rests(inbuf[c])) :
          inbuf' = [inbuf EXCEPT ![c] = inbuf[c] \o chunk]
    /\ last' = NoEvent
    /\ UNCHANGED <<kv, conn, eof, pc, cur, resp, codec, written, free>>

\* The peer closes its side.
ClientClose(c) ==
    /\ conn[c] = "Serving"
    /\ ~eof[c]
    /\ eof' = [eof EXCEPT ![c] = TRUE]
    /\ UNCHANGED <<kv, conn, inbuf, pc, cur, resp, last, codec, written, free>>

\* An end that takes every served connection down with it.
EndSession_all(c, how, event) ==
    /\ conn' = [d \in DOMAIN conn |-> IF conn[d] = "Serving" THEN how ELSE conn[d]]
    /\ free' = free + Cardinality(Serving)
    /\ inbuf' = [d \in DOMAIN conn |-> IF conn[d] = "Serving" THEN <<>> ELSE inbuf[d]]
    /\ pc' = [d \in DOMAIN conn |-> "read"]
    /\ cur' = [d \in DOMAIN conn |-> NoReq]
    /\ resp' = [d \in DOMAIN conn |-> None]
    /\ last' = event

\* An exception leaves connection_handler: the greenlet dies and the server
\* closes the socket.  how is "Closed" after the break of line 159.  Either
\* way the greenlet gives its slot back to the pool.
EndSession(c, how, event) ==
    /\ conn' = [conn EXCEPT ![c] = how]
    /\ free' = free + 1
    /\ inbuf' = [inbuf EXCEPT ![c] = <<>>]
    /\ pc' = [pc EXCEPT ![c] = "read"]
    /\ cur' = [cur EXCEPT ![c] = NoReq]
    /\ resp' = [resp EXCEPT ![c] = None]
    /\ last' = event

\* A handler that decodes the next request whether or not the response to
\* the last one has been written.
Recv_eager(c) ==
    LET r == handle_request(inbuf[c], 1, eof[c], server_side)
        g == get_response(kv, r.val)
        req == [st |-> r.st, val |-> r.val]
    IN  /\ conn[c] = "Serving"
        /\ r.st # "Block"
        /\ UNCHANGED <<eof, codec>>
        /\ written' = IF r.st = "ok" THEN Record(written, r.val) ELSE written
        /\ IF r.st = "Disconnect"
           THEN /\ EndSession(c, "Closed", [c |-> c, req |-> req, st |-> "Disconnect",
                                            resp |-> None, sent |-> <<>>])
                /\ UNCHANGED kv
           ELSE IF r.st # "ok"
           THEN /\ EndSession(c, "Errored", [c |-> c, req |-> req, st |-> r.st,
                                             resp |-> None, sent |-> <<>>])
                /\ UNCHANGED kv
           ELSE IF g.st \notin {"ok", "CommandError"}
           THEN /\ EndSession(c, "Errored", [c |-> c, req |-> req, st |-> g.st,
                                             resp |-> None, sent |-> <<>>])
                /\ kv' = g.kv
           ELSE /\ kv' = g.kv
                /\ inbuf' = [inbuf EXCEPT ![c] = SubSeq(inbuf[c], r.pos, Len(inbuf[c]))]
                /\ pc' = [pc EXCEPT ![c] = "write"]
                /\ cur' = [cur EXCEPT ![c] = req]
                /\ resp' = [resp EXCEPT ![c] = IF g.st = "ok" THEN g.ret ELSE Error(g.msg)]
                /\ UNCHANGED <<conn, last, free>>

\* Lines 155-166: one request is decoded and run.  Only Disconnect is caught
\* around handle_request and only CommandError around get_response.
Recv(c) ==
    LET r == handle_request(inbuf[c], 1, eof[c], server_side)
        g == get_response(kv, r.val)
        req == [st |-> r.st, val |-> r.val]
    IN  /\ conn[c] = "Serving"
        /\ pc[c] = "read"
        /\ r.st # "Block"
        /\ UNCHANGED <<eof, codec>>
        /\ written' = IF r.st = "ok" THEN Record(written, r.val) ELSE written
        /\ IF r.st = "Disconnect"
           THEN /\ EndSession(c, "Closed", [c |-> c, req |-> req, st |-> "Disconnect",
                                            resp |-> None, sent |-> <<>>])
                /\ UNCHANGED kv
           ELSE IF r.st # "ok"
           THEN /\ EndSession(c, "Errored", [c |-> c, req |-> req, st |-> r.st,
                                             resp |-> None, sent |-> <<>>])
                /\ UNCHANGED kv
           ELSE IF g.st \notin {"ok", "CommandError"}
           THEN /\ EndSession(c, "Errored", [c |-> c, req |-> req, st |-> g.st,
                                             resp |-> None, sent |-> <<>>])
                /\ kv' = g.kv
           ELSE /\ kv' = g.kv
                /\ inbuf' = [inbuf EXCEPT ![c] = SubSeq(inbuf[c], r.pos, Len(inbuf[c]))]
                /\ pc' = [pc EXCEPT ![c] = "write"]
                /\ cur' = [cur EXCEPT ![c] = req]
                /\ resp' = [resp EXCEPT ![c] = IF g.st = "ok" THEN g.ret ELSE Error(g.msg)]
                /\ UNCHANGED <<conn, last, free>>

\* Line 168, write_response: the response is encoded in a buffer, then written
\* and flushed; an exception of _write leaves the handler with nothing written.
Send(c) ==
    LET w == _write(resp[c])
    IN  /\ conn[c] = "Serving"
        /\ pc[c] = "write"
        /\ UNCHANGED <<kv, eof, codec, written>>
        /\ IF w.st # "ok"
           THEN EndSession(c, "Errored", [c |-> c, req |-> cur[c], st |-> w.st,
                                          resp |-> resp[c], sent |-> <<>>])
           ELSE /\ pc' = [pc EXCEPT ![c] = "read"]
                /\ cur' = [cur EXCEPT ![c] = NoReq]
                /\ resp' = [resp EXCEPT ![c] = None]
                /\ last' = [c |-> c, req |-> cur[c], st |-> "ok",
                            resp |-> resp[c], sent |-> w.bytes]
                /\ UNCHANGED <<conn, inbuf, free>>

Next ==
    \E c \in Conns :
        \/ Connect(c)
        \/ Accept(c)
        \/ ClientSend(c)
        \/ ClientClose(c)
        \/ Recv(c)
        \/ Send(c)

Spec == Init /\ [][Next]_vars

(***************************************************************************)
(* The server with a pool that serves its peers side by side.              *)
(***************************************************************************)
\* The slots of the pool of SpecPool.
PoolSlots == 2

InitPool ==
    /\ kv = EmptyKv
    /\ conn = [c \in Peers |-> "Free"]
    /\ inbuf = [c \in Peers |-> <<>>]
    /\ eof = [c \in Peers |-> FALSE]
    /\ pc = [c \in Peers |-> "read"]
    /\ cur = [c \in Peers |-> NoReq]
    /\ resp = [c \in Peers |-> None]
    /\ last = NoEvent
    /\ codec = NoCodec
    /\ written = [k \in {} |-> None]
    /\ free = PoolSlots

NextPool ==
    \E c \in Peers :
        \/ Connect(c)
        \/ Accept(c)
        \/ ClientSend(c)
        \/ ClientClose(c)
        \/ Recv(c)
        \/ Send(c)

SpecPool == InitPool /\ [][NextPool]_vars

(***************************************************************************)
(* The codec alone: a value is built, written by _write, the bytes are     *)
(* cut short or followed by more bytes, and handle_request reads them      *)
(* back.                                                                   *)
(***************************************************************************)
\* The longest payload of a bulk, the deepest nesting of a value.
MaxLen == 2
MaxDepth == 1

PayloadBytes == {"CR", "LF", "NUL", "a"}

RECURSIVE SeqsUpTo(_, _)
\* The sequences over S of length at most n.
SeqsUpTo(S, n) ==
    IF n = 0 THEN {<<>>}
    ELSE LET shorter == SeqsUpTo(S, n - 1)
         IN  shorter \cup {Append(q, b) : q \in shorter, b \in S}

Payloads == SeqsUpTo(PayloadBytes, MaxLen)

Atoms ==
    {PyBytes(p) : p \in Payloads}
        \cup {None, PyInt(0), PyInt(7), PyInt(-12), Error(PyStr(<<"e">>)), Error(PyBytes(<<"e">>))}

\* The values put beside a value when it is nested.
NestAtoms == {PyInt(7), PyBytes(<<"a">>)}

RECURSIVE Depth(_)
Depth(v) ==
    LET items == IF Kind(v) = "arr" THEN v[2]
                 ELSE [i \in 1..(2 * Len(v[2])) |-> v[2][(i + 1) \div 2][2 - (i % 2)]]
        ds == {Depth(items[i]) : i \in 1..Len(items)}
    IN  IF Kind(v) \notin {"arr", "map"} THEN 0
        ELSE IF ds = {} THEN 1
        ELSE 1 + (CHOOSE d \in ds : \A e \in ds : e <= d)

\* The lists and dicts one level above v.
Nestings(v) ==
    {PyList(<<v>>), PyList(<<>>), PyDict(<<>>)}
        \cup {PyList(<<v, b>>) : b \in NestAtoms}
        \cup {PyList(<<b, v>>) : b \in NestAtoms}
        \cup {PyDict(<<<<b, v>>>>) : b \in NestAtoms}
        \cup (IF Hashable(v) THEN {PyDict(<<<<v, b>>>>) : b \in NestAtoms} ELSE {})

\* The bytes that may follow a frame on the stream.
Tails == {<<"$">>, <<"CR", "LF">>, <<":", "7", "CR", "LF">>, <<"a">>}

InitCodec ==
    /\ kv = EmptyKv
    /\ conn = [c \in Conns |-> "Free"]
    /\ inbuf = [c \in Conns |-> <<>>]
    /\ eof = [c \in Conns |-> FALSE]
    /\ pc = [c \in Conns |-> "read"]
    /\ cur = [c \in Conns |-> NoReq]
    /\ resp = [c \in Conns |-> None]
    /\ last = NoEvent
    /\ written = [k \in {} |-> None]
    /\ free = max_clients
    /\ \E a \in Atoms : codec = [NoCodec EXCEPT !.phase = "value", !.v = a]

Nest ==
    /\ codec.phase = "value"
    /\ Depth(codec.v) < MaxDepth
    /\ \E w \in Nestings(codec.v) : codec' = [codec EXCEPT !.v = w]
    /\ UNCHANGED serverVars

\* write_response on a stream of its own.
Encode ==
    LET w == _write(codec.v)
    IN  /\ codec.phase = "value"
        /\ codec' = [codec EXCEPT !.phase = IF w.st = "ok" THEN "wire" ELSE "failed",
                                  !.enc = w.st, !.wire = w.bytes]
        /\ UNCHANGED serverVars

\* The peer goes away before the whole frame is sent.
Cut ==
    /\ codec.phase = "wire" /\ ~codec.eof /\ codec.tail = <<>>
    /\ \E n \in 1..(Len(codec.wire) - 1) :
          codec' = [codec EXCEPT !.wire = SubSeq(codec.wire, 1, n), !.cut = TRUE,
                                 !.eof = TRUE]
    /\ UNCHANGED serverVars

\* More bytes follow the frame.
Trail ==
    /\ codec.phase = "wire" /\ ~codec.eof /\ codec.tail = <<>>
    /\ \E t \in Tails : codec' = [codec EXCEPT !.wire = codec.wire \o t, !.tail = t]
    /\ UNCHANGED serverVars

\* The peer closes after the last byte sent.
Close ==
    /\ codec.phase = "wire" /\ ~codec.eof
    /\ codec' = [codec EXCEPT !.eof = TRUE]
    /\ UNCHANGED serverVars

\* A peer writes the frame of a map of two pairs, the value at hand under
\* the first key; nothing on the wire makes the two keys differ.
PeerMap ==
    /\ codec.phase = "value" /\ Depth(codec.v) = 0 /\ Kind(codec.v) # "err"
    /\ \E k1 \in NestAtoms, k2 \in NestAtoms, b \in NestAtoms :
          LET sent == PyDict(<<<<k1, codec.v>>, <<k2, b>>>>)
          IN  codec' = [codec EXCEPT !.phase = "sent", !.v = sent,
                                     !.wire = _write(sent).bytes]
    /\ UNCHANGED serverVars

\* handle_request on the stream, on either side.
Decode ==
    /\ codec.phase \in {"wire", "sent"}
    /\ \E side \in {client_side, server_side} :
          LET r == handle_request(codec.wire, 1, codec.eof, side)
          IN  /\ r.st # "Block"
              /\ codec' = [codec EXCEPT
                              !.phase = IF codec.phase = "wire" THEN "decoded"
                                        ELSE "received",
                              !.side = side, !.dec = r]
    /\ UNCHANGED serverVars

NextCodec ==
    \/ Nest
    \/ Encode
    \/ Cut
    \/ Trail
    \/ Close
    \/ PeerMap
    \/ Decode

SpecCodec == InitCodec /\ [][NextCodec]_vars

(***************************************************************************)
(* The claims                                                              *)
(***************************************************************************)
\* A step of connection_handler on c that ran a request and has its response
\* ready to write.
Dispatched(c) == pc[c] = "read" /\ pc'[c] = "write"

\* The request cur[c] is being answered with a value.
Answering(c) == conn[c] = "Serving" /\ pc[c] = "write"

IsUnknownCommand(req) ==
    /\ req.st = "ok"
    /\ CommandOf(req.val) # <<>>
    /\ PyBytes(CommandOf(req.val)) \notin get_commands

\* The bytes of ErrorText(text name): tag '-', the message, CR LF.
ErrorFrame(text, name) == <<"-", text>> \o name \o CRLF

\* C1: a request whose first token names no command is answered on its own
\* connection with ErrorText("unrecognized command: <name>"), and the
\* connection stays in Serving.
C1_UnknownCommandAnswered ==
    (last.st # "none" /\ IsUnknownCommand(last.req)) =>
        /\ last.st = "ok"
        /\ last.resp = Error(Message("unrecognized command: ", CommandOf(last.req.val)))
        /\ last.sent = ErrorFrame("unrecognized command: ", CommandOf(last.req.val))
        /\ conn[last.c] = "Serving"

\* C2: a leading byte that is no tag makes decoding fail with CommandError;
\* the handler answers it with an ErrorText on the same connection, which
\* stays in Serving.
C2_BadTagAnswered ==
    (last.st # "none" /\ last.req.st = "CommandError") =>
        /\ last.st = "ok"
        /\ Kind(last.resp) = "err"
        /\ last.sent # <<>>
        /\ conn[last.c] = "Serving"

\* C3: when the stream ends inside a value (the bytes of a frame cut short of
\* its last byte, then end of input), decoding signals Disconnect: it returns
\* no value and raises nothing else.
C3_TruncationIsDisconnect ==
    (codec.phase = "decoded" /\ codec.cut) => codec.dec.st = "Disconnect"

\* The value of key in the history w, null when no write to it stands.
Standing(w, key) == IF key \in DOMAIN w THEN w[key] ELSE None

\* Every key but key is in both stores or in neither, with the same value.
SameButFor(before, after, keys) ==
    /\ DOMAIN before \ keys = DOMAIN after \ keys
    /\ \A k \in DOMAIN before \ keys : after[k] = before[k]

C4_Step(c) ==
    LET data == cur'[c].val
        args == ArgsOf(data)
    IN  /\ IsCall(data, GET, 1) => resp'[c] = Standing(written, args[1])
        /\ IsCall(data, SET, 2) =>
              /\ resp'[c] = PyInt(1)
              /\ args[1] \in DOMAIN kv'
              /\ kv'[args[1]] = args[2]
              /\ SameButFor(kv, kv', {args[1]})

\* C4: GET k returns the value of the latest SET or MSET write to k that no
\* later DELETE k or FLUSH has undone, and null when there is none; SET k v
\* returns 1, leaves k with v and changes no other key.
C4_GetReturnsLatestWrite == [][\A c \in Conns : Dispatched(c) => C4_Step(c)]_vars

C4_Witness ==
    \E c \in Conns :
        /\ Answering(c)
        /\ IsCall(cur[c].val, GET, 1)
        /\ resp[c] = PyBytes(Vy)
        /\ written[ArgsOf(cur[c].val)[1]] = PyBytes(Vy)

C5_Step(c) ==
    LET data == cur'[c].val
        k    == ArgsOf(data)[1]
    IN  IsCall(data, DELETE, 1) =>
            /\ resp'[c] = (IF k \in DOMAIN kv THEN PyInt(1) ELSE PyInt(0))
            /\ k \notin DOMAIN kv'
            /\ SameButFor(kv, kv', {k})
            /\ delete(kv', k).ret = PyInt(0)

\* C5: DELETE k returns 1 exactly when k is in the store and 0 otherwise;
\* afterwards k is absent, every other key keeps its value, and DELETE k
\* again returns 0.
C5_DeleteReturnsPresence == [][\A c \in Conns : Dispatched(c) => C5_Step(c)]_vars

C5_Witness ==
    \E c \in Conns :
        /\ Answering(c)
        /\ IsCall(cur[c].val, DELETE, 1)
        /\ resp[c] = PyInt(1)
        /\ DOMAIN kv # {}

RECURSIVE SetEach(_, _)
\* The store after SET k1 v1, ..., SET kn vn in this order.
SetEach(store, args) ==
    IF Len(args) < 2 THEN store
    ELSE SetEach(set(store, args[1], args[2]).kv, SubSeq(args, 3, Len(args)))

C6_Step(c) ==
    LET data == cur'[c].val
        args == ArgsOf(data)
        n    == Len(args) \div 2
    IN  (CommandOf(data) = MSET /\ Len(args) % 2 = 0) =>
            /\ kv' = SetEach(kv, args)
            /\ SameButFor(kv, kv', {args[2 * i - 1] : i \in 1..n})
            /\ resp'[c] = PyInt(n)

\* C6: MSET k1 v1 ... kn vn leaves the store as SET k1 v1, ..., SET kn vn in
\* this order leave it, changes no other key and returns n.
C6_MsetIsSetsInOrder == [][\A c \in Conns : Dispatched(c) => C6_Step(c)]_vars

C6_Witness ==
    \E c \in Conns :
        /\ Answering(c)
        /\ cur[c].val = PyList(<<B(MSET), B(Ka), B(Vx), B(Ka), B(Vy)>>)
        /\ resp[c] = PyInt(2)
        /\ kv[B(Ka)] = B(Vy)

C7_Step(c) ==
    LET data == cur'[c].val
        args == ArgsOf(data)
    IN  CommandOf(data) = MGET =>
            /\ Kind(resp'[c]) = "arr"
            /\ Len(resp'[c][2]) = Len(args)
            /\ \A i \in 1..Len(args) : resp'[c][2][i] = get(kv, args[i]).ret
            /\ kv' = kv

\* C7: MGET k1 ... kn returns n elements, the i-th what GET ki returns in the
\* same store, and leaves the store as it is.
C7_MgetIsGetsInOrder == [][\A c \in Conns : Dispatched(c) => C7_Step(c)]_vars

C7_Witness ==
    \E c \in Conns :
        /\ Answering(c)
        /\ cur[c].val = PyList(<<B(MGET), B(Kb), B(Ka), B(Kb)>>)
        /\ resp[c] = PyList(<<None, B(Vx), None>>)

C8_Step(c) ==
    IsCall(cur'[c].val, FLUSH, 0) =>
        /\ DOMAIN kv' = {}
        /\ resp'[c] = PyInt(Cardinality(DOMAIN kv) - 1)

\* C8: FLUSH leaves the store empty and returns the number of entries the
\* store held, minus one.
C8_FlushReturnsCountMinusOne == [][\A c \in Conns : Dispatched(c) => C8_Step(c)]_vars

C8_Witness ==
    \E c \in Conns :
        /\ Answering(c)
        /\ IsCall(cur[c].val, FLUSH, 0)
        /\ resp[c] = PyInt(-1)
        /\ DOMAIN kv = {}

\* C9: every value is written by _write, and the bytes written, read back on
\* the server side, give the value.
C9_RoundTrip ==
    /\ codec.phase # "failed"
    /\ (codec.phase = "decoded" /\ ~codec.cut /\ codec.tail = <<>>
            /\ codec.side = server_side) =>
          (codec.dec.st = "ok" /\ codec.dec.val = codec.v)

\* The frame of a bulk with payload p.
BulkFrame(p) == <<"$">> \o FormatInt(Len(p)) \o CRLF \o p \o CRLF

\* C10: on the server side the bytes $L CR LF p CR LF, whatever bytes p holds
\* and whatever follows, are read as p: L + 2 bytes are consumed after the
\* length line and the stream is left at the byte after them.
C10_BulkIsLengthDelimited ==
    \A p \in Payloads :
        (/\ codec.phase = "decoded"
         /\ codec.side = server_side
         /\ codec.wire = BulkFrame(p) \o codec.tail) =>
            /\ codec.dec.st = "ok"
            /\ codec.dec.val = PyBytes(p)
            /\ codec.dec.pos = Len(BulkFrame(p)) + 1
            /\ codec.dec.pos - (Len(<<"$">> \o FormatInt(Len(p)) \o CRLF) + 1) = Len(p) + 2

C10_Witness ==
    /\ codec.phase = "decoded"
    /\ codec.side = server_side
    /\ codec.v = PyBytes(<<"CR", "LF">>)
    /\ codec.tail = <<"CR", "LF">>
    /\ codec.dec.val = PyBytes(<<"CR", "LF">>)
    /\ codec.dec.pos = 9
C11_Expected ==
    LET ps == codec.v[2]
    IN  IF ps[1][1] = ps[2][1] THEN <<<<ps[1][1], ps[2][2]>>>> ELSE ps

C12_Step(c) ==
    conn[c] = "Pending" =>
        /\ conn'[c] \in {"Pending", "Serving"}
        /\ conn'[c] = "Serving" => Cardinality(Serving) < PoolSlots

\* C12: never more connections are served at once than the pool has slots; a
\* connection that arrives while a slot is free can be accepted at once; one
\* that arrives while the pool is full is not turned away: it waits, and is
\* served only once a served connection has ended and freed its slot.
C12_PoolBoundsServing ==
    /\ [](/\ Cardinality(Serving) <= PoolSlots
          /\ \A c \in Peers :
                conn[c] = "Pending" =>
                    (ENABLED Accept(c) <=> Cardinality(Serving) < PoolSlots))
    /\ [][\A c \in Peers : C12_Step(c)]_vars

C12_Witness ==
    \E c \in Peers :
        /\ conn[c] = "Pending"
        /\ Cardinality(Serving) = PoolSlots
        /\ free = 0

\* What a and b hold together after any whole number of the peers' commands:
\* nothing, or the two values of one MSET.
C13_Snapshots ==
    { <<None, None>>, <<B(Vx), B(Vy)>>, <<B(Vy), B(Vx)>> }

\* C13: commands of connections served side by side run one at a time
\* against the store: wherever another connection can run, the store holds
\* all of an MSET or none of it, and every MGET is answered with a and b as
\* they stood together at one moment.
C13_CommandsAreAtomic ==
    /\ <<KvGet(kv, B(Ka)), KvGet(kv, B(Kb))>> \in C13_Snapshots
    /\ \A c \in Peers :
          (Answering(c) /\ IsCall(cur[c].val, MGET, 2)) =>
              /\ Kind(resp[c]) = "arr"
              /\ resp[c][2] \in C13_Snapshots

\* One peer's MGET is answered while another peer's MSET has already
\* replaced what it read.
C13_Witness ==
    \E c \in Peers, d \in Peers :
        /\ c # d /\ Answering(c) /\ Answering(d)
        /\ IsCall(cur[c].val, MGET, 2)
        /\ resp[c] = PyList(<<B(Vx), B(Vy)>>)
        /\ IsCall(cur[d].val, MSET, 4)
        /\ KvGet(kv, B(Ka)) = B(Vy)

\* The session of c ends in this step.
Ended(c) == conn[c] = "Serving" /\ conn'[c] \in {"Closed", "Errored"}

C14_Step(c) ==
    Ended(c) =>
        /\ \A d \in Peers \ {c} :
              /\ conn'[d] = conn[d] /\ inbuf'[d] = inbuf[d] /\ eof'[d] = eof[d]
              /\ pc'[d] = pc[d] /\ cur'[d] = cur[d] /\ resp'[d] = resp[d]
        /\ kv' = kv
        /\ free' = free + 1

\* C14: when the session of one connection ends, by Disconnect or by an
\* error, nothing else ends with it: every other connection keeps its state,
\* the store keeps its contents and the slot goes back to the pool; and with
\* sessions ended, a request already read can still be answered and a
\* waiting connection can still be accepted.
C14_EndIsLocal ==
    /\ [][\A c \in Peers : C14_Step(c)]_vars
    /\ []((\E c \in Peers : conn[c] \in {"Closed", "Errored"}) =>
            \A d \in Peers :
                /\ Answering(d) => ENABLED Send(d)
                /\ (conn[d] = "Pending" /\ free > 0) => ENABLED Accept(d))

\* One session ended by an error and one by Disconnect, a third still being
\* answered from a store that kept its contents.
C14_Witness ==
    \E c \in Peers, d \in Peers, e \in Peers :
        /\ conn[c] = "Errored" /\ conn[d] = "Closed"
        /\ Answering(e) /\ IsCall(cur[e].val, MGET, 2)
        /\ resp[e] = PyList(<<B(Vx), B(Vy)>>)
        /\ KvGet(kv, B(Ka)) = B(Vx)

\* The request calls a command of fixed arity with another number of
\* arguments.
WrongArity(req) ==
    /\ req.st = "ok"
    /\ LET command == CommandOf(req.val)
           n == Len(ArgsOf(req.val))
       IN  \/ command \in {GET, DELETE} /\ n # 1
           \/ command = SET /\ n # 2
           \/ command = FLUSH /\ n # 0

\* C15: a known command called with the wrong number of arguments is
\* answered with an ErrorText, and the connection stays in Serving.
C15_WrongArityAnswered ==
    (last.st # "none" /\ WrongArity(last.req)) =>
        /\ last.st = "ok"
        /\ Kind(last.resp) = "err"
        /\ last.sent # <<>> /\ Head(last.sent) = "-"
        /\ conn[last.c] = "Serving"

\* The operation a first token selects, whatever the case of its letters.
C16_Named(t0) ==
    IF t0 \in {<<"g", "e", "t">>, <<"G", "e", "t">>, GET} THEN GET ELSE t0

\* What the array request [t0, ..., tn] does to store: the operation t0
\* names, called with t1 ... tn as they are.
C16_ArrayForm(store, words) ==
    IF words # <<>> /\ Kind(words[1]) = "bulk" /\ B(C16_Named(words[1][2])) \in get_commands
    THEN Call(store, B(C16_Named(words[1][2])), Tail(words))
    ELSE get_response(store, PyList(words))

C16_Step(c) ==
    LET data == cur'[c].val
        words == IF Kind(data) = "bulk" THEN Split(data[2], <<>>, <<>>) ELSE data[2]
        ref == C16_ArrayForm(kv, words)
    IN  Kind(data) \in {"bulk", "arr"} =>
            /\ kv' = ref.kv
            /\ resp'[c] = IF ref.st = "ok" THEN ref.ret ELSE Error(ref.msg)

\* C16: a request that is one text is dispatched as the array of its
\* whitespace-separated tokens: same store afterwards, same result; the
\* first token selects the operation whatever its case and the other tokens
\* are the arguments, unchanged.
C16_TextIsArrayOfTokens == [][\A c \in Conns : Dispatched(c) => C16_Step(c)]_vars

\* The one-line text "Get a" is answered as GET a, with b in the store.
C16_Witness ==
    \E c \in Conns :
        /\ Answering(c)
        /\ cur[c].val = B(<<"G", "e", "t", "SP", "a">>)
        /\ resp[c] = B(Vx)
        /\ KvGet(kv, B(Kb)) = B(Vy)
        /\ B(Kb) \in DOMAIN written

\* C17: every key of the store is a bulk that is not null and every value of
\* the store is a bulk.
C17_StoreHoldsBulks ==
    \A k \in DOMAIN kv : Kind(k) = "bulk" /\ Kind(kv[k]) = "bulk"

\* A response goes out on c in this step.
Responded(c) == last' # last /\ last'.c = c /\ last'.sent # <<>>

\* A request of c is decoded in this step.
Decoded(c) == cur'[c] # cur[c] /\ cur'[c].st = "ok"

C18_Step(c) ==
    /\ Responded(c) =>
          /\ pc[c] = "write" /\ cur[c].st = "ok"
          /\ last'.req = cur[c] /\ last'.resp = resp[c]
          /\ last'.sent = _write(resp[c]).bytes
          /\ pc'[c] = "read" /\ cur'[c] = NoReq
    /\ Decoded(c) =>
          /\ pc[c] = "read" /\ cur[c] = NoReq
          /\ pc'[c] = "write"
    /\ (last' # last /\ last'.c = c /\ last'.st = "Disconnect") => last'.sent = <<>>

\* C18: on every connection requests and responses take turns: a request is
\* decoded only when no response is owed, a response is written only for
\* the request decoded last on that connection, and Disconnect writes
\* nothing.
C18_RequestsAndResponsesAlternate ==
    /\ [](\A c \in Conns : pc[c] = "write" <=> cur[c].st = "ok")
    /\ [][\A c \in Conns : C18_Step(c)]_vars

\* The response to the first of two requests sent in one piece is written
\* while the second is still undecoded in the buffer.
C18_Witness ==
    /\ last.st = "ok" /\ last.sent # <<>>
    /\ last.c \in Conns
    /\ pc[last.c] = "read" /\ cur[last.c] = NoReq
    /\ inbuf[last.c] = execute(<<<<"F", "O", "O">>>>)

\* The request of c handled in this step does not complete: its decoding or
\* its command raises.
FailedRequest(c) ==
    /\ conn[c] = "Serving" /\ pc[c] = "read"
    /\ \/ Dispatched(c) /\ get_response(kv, cur'[c].val).st = "CommandError"
       \/ Ended(c) /\ last'.st # "Disconnect"

OddMset(data) ==
    LET args == ArgsOf(data)
    IN  /\ CommandOf(data) = MSET
        /\ Len(args) % 2 = 1
        /\ \A i \in 1..(Len(args) \div 2) : Hashable(args[2 * i - 1])

C20_Step(c) ==
    LET data  == cur'[c].val
        args  == ArgsOf(data)
        n     == Len(args) \div 2
        odd   == args[Len(args)]
        keys  == {args[2 * i - 1] : i \in 1..n}
    IN  OddMset(data) =>
            /\ kv' = SetEach(kv, SubSeq(args, 1, 2 * n))
            /\ SameButFor(kv, kv', keys)
            /\ odd \notin keys =>
                    /\ odd \in DOMAIN kv' <=> odd \in DOMAIN kv
                    /\ KvGet(kv', odd) = KvGet(kv, odd)
            /\ resp'[c] = PyInt(n)

\* C20: MSET with 2n+1 arguments does not fail: it writes the first n pairs,
\* leaves the key given last without a value as it was and returns n.
C20_OddMsetDropsLast ==
    [][\A c \in Conns :
          /\ Dispatched(c) => C20_Step(c)
          /\ (Ended(c) /\ pc[c] = "read" /\ last'.req.st = "ok")
                => ~OddMset(last'.req.val)]_vars

\* MSET b y a is answered 1: b is written, a keeps the value it had.
C20_Witness ==
    \E c \in Conns :
        /\ Answering(c)
        /\ cur[c].val = PyList(<<B(MSET), B(Kb), B(Vy), B(Ka)>>)
        /\ resp[c] = PyInt(1)
        /\ KvGet(kv, B(Kb)) = B(Vy)
        /\ KvGet(kv, B(Ka)) = B(Vx)

====
